---- MODULE Spec2Model ----
(***************************************************************************)
(* OperationQueue (src/src/OperationQueue.ts): a FIFO queue of operations  *)
(* with two gates ("current", "all") and dependencies between queues.      *)
(*                                                                         *)
(* One step of the model is one synchronous block of the JavaScript run:   *)
(* a public call with everything it runs before it returns (runNext up to  *)
(* its first await included), or one continuation of a run loop.           *)
(*                                                                         *)
(* The two gates are Semaphore objects of the package "semaphore", which   *)
(* OperationQueue.ts imports.  The model uses the four members the queue   *)
(* uses: isSignalled, signal(), reset() and awaiting the object.  The      *)
(* object is a thenable, not a promise, so "await semaphore" calls its     *)
(* then() in a later microtask: a wait is first "called" and is "attached" *)
(* to the gate one step later (action Attach).  The microtask queue is     *)
(* first in, first out: before that then() runs, only continuations that   *)
(* were queued before it can run, which is at most one continuation of     *)
(* each run loop that existed when the wait was called (field ahead);      *)
(* public calls may come at any point, from microtasks of the callers.     *)
(* Code that awaits current() or all() from outside is kept in callers,    *)
(* one wait for each pending await.                                        *)
(***************************************************************************)
EXTENDS Naturals, Sequences, FiniteSets

\* Bound: the number of enqueue calls of a run.
MaxOps == 3

Queues == {1, 2}

\* DependencyMode (types.ts); None: the map has no such key.
WaitAll == "WaitAll"
WaitCurrent == "WaitCurrent"
Interleave == "Interleave"
None == "None"
DependencyMode == {WaitAll, WaitCurrent, Interleave}

\* What an operation does when it is called: it returns a value or a promise
\* ("return"), or raises synchronously ("throw").
Calls == {"return", "throw"}

\* How the promise of an operation that returned settles.
Outcomes == {"resolved", "rejected"}

VARIABLES
    dependencies,      \* dependencies[q][d]: the mode q holds d with, or None
    operations,        \* operations[q]: the pending list, entry ids in order
    suspended,         \* suspended[q]: the field _suspended
    currentSemaphore,  \* currentSemaphore[q]: isSignalled of the current gate
    allSemaphore,      \* allSemaphore[q]: isSignalled of the all gate
    entries,           \* entries[i]: the i-th entry ever enqueued (see NewEntry)
    callers            \* the waits of the code that awaits current() or all()

vars == <<dependencies, operations, suspended, currentSemaphore, allSemaphore, entries,
          callers>>

\* The mutable part of the program state as one value, so that the
\* synchronous methods can be written as functions from state to state.
World == [operations |-> operations, suspended |-> suspended,
          currentSemaphore |-> currentSemaphore, allSemaphore |-> allSemaphore,
          entries |-> entries, callers |-> callers]

Commit(W) ==
    /\ operations' = W.operations
    /\ suspended' = W.suspended
    /\ currentSemaphore' = W.currentSemaphore
    /\ allSemaphore' = W.allSemaphore
    /\ entries' = W.entries
    /\ callers' = W.callers

Ids(W) == 1..Len(W.entries)

----------------------------------------------------------------------------
\* Dependencies

NoDependencies == [q \in Queues |-> [d \in Queues |-> None]]

\* addDependency(queue, mode) called on queue self.
addDependency(deps, self, queue, mode) ==
    LET own == [deps EXCEPT ![self][queue] = mode]
    IN  IF mode = Interleave THEN [own EXCEPT ![queue][self] = mode] ELSE own

\* The dependency set-ups of the runs, each built by addDependency calls:
\* none, and queue 1 depending on queue 2 one way ...
OneWaySetups ==
    { NoDependencies,
      addDependency(NoDependencies, 1, 2, WaitAll),
      addDependency(NoDependencies, 1, 2, WaitCurrent) }

\* ... and the two queues depending on each other (the tests' set-ups).
MutualSetups ==
    { addDependency(addDependency(NoDependencies, 1, 2, WaitCurrent), 2, 1, WaitCurrent),
      addDependency(NoDependencies, 1, 2, Interleave) }

----------------------------------------------------------------------------
\* Entries.  An OperationEntry is [operation, resolve, reject]; the model
\* keeps with it where its run loop stands:
\*   state   "pending"   in the pending list
\*           "cleared"   dropped from the pending list by clear()
\*           "waiting"   dequeued, runNext awaits the dependencies
\*           "running"   operation() was called, its promise is pending
\*           "settled"   resolve or reject was called, run() has not returned yet
\*           "done"      runNext went on after run()
\*           "crashed"   operation() raised: run() and runNext() rejected
\*   outcome "none", "resolved", "rejected": the promise enqueue returned
\*   result  what that promise settled with: the operation of entry i returns
\*           (or rejects with) the value i; 0 while the promise is pending
\*   calls   bookkeeping, read by no method: how often operation() was called
\*   waits   the dependency waits not yet resolved, each
\*           [on: queue, gate: "current" or "all", attached: BOOLEAN,
\*            ahead: while not attached, the entries whose run loop may have
\*                   a continuation queued ahead of the then() of this wait,
\*            targets: bookkeeping, read by no method: the entries queue
\*                   `on` had dequeued when the wait was called]
\*   cut     bookkeeping, read by no method: clear() was called on the queue
\*           while one of its operations was in flight and this entry was
\*           dequeued and its operation had not started
NewEntry(q) ==
    [queue |-> q, state |-> "pending", outcome |-> "none", result |-> 0, calls |-> 0,
     waits |-> {}, cut |-> FALSE]

\* The entries of a queue whose operation is in flight: called, not yet settled.
InFlight(W, q) ==
    {i \in Ids(W) : W.entries[i].queue = q /\ W.entries[i].state = "running"}

\* The entries a run loop holds and will go on with.
RunLoops(W) ==
    {i \in Ids(W) : W.entries[i].state \in {"waiting", "running", "settled"}}

\* The entries a queue has dequeued and not finished with.
Dequeued(W, q) ==
    {i \in Ids(W) : W.entries[i].queue = q
                    /\ W.entries[i].state \in {"waiting", "running", "settled", "crashed"}}

----------------------------------------------------------------------------
\* Semaphore

isSignalled(W, q, gate) ==
    IF gate = "current" THEN W.currentSemaphore[q] ELSE W.allSemaphore[q]

\* The entries es with the attached waits on the gate of q resolved, from entry
\* k downwards.
RECURSIVE release(_, _, _, _)
release(es, q, gate, k) ==
    IF k = 0 THEN es
    ELSE release([es EXCEPT ![k].waits =
                      {w \in @ : ~(w.on = q /\ w.gate = gate /\ w.attached)}],
                 q, gate, k - 1)

\* signal(): opens the gate and resolves the promise the attached waiters hold,
\* those of the run loops and those of the callers of current() and all().
signal(W, q, gate) ==
    LET released == IF isSignalled(W, q, gate) THEN W.entries
                    ELSE release(W.entries, q, gate, Len(W.entries))
        waiting == {w \in W.callers : ~(w.on = q /\ w.gate = gate /\ w.attached)}
    IN  IF gate = "current"
        THEN [W EXCEPT !.currentSemaphore[q] = TRUE, !.entries = released,
                       !.callers = waiting]
        ELSE [W EXCEPT !.allSemaphore[q] = TRUE, !.entries = released,
                       !.callers = waiting]

\* reset(): closes the gate; whoever awaits it afterwards waits for the next signal.
reset(W, q, gate) ==
    IF gate = "current"
    THEN [W EXCEPT !.currentSemaphore[q] = FALSE]
    ELSE [W EXCEPT !.allSemaphore[q] = FALSE]

----------------------------------------------------------------------------
\* Scheduling

suspend(W, q) ==
    IF W.suspended[q] THEN W ELSE [W EXCEPT !.suspended[q] = TRUE]

\* Variant of dependencyWaits in which the dependencies of the modes
\* WaitCurrent and Interleave are not awaited.
dependencyWaitsAllOnly(W, deps, q) ==
    { [on |-> d, gate |-> "all", attached |-> FALSE, ahead |-> RunLoops(W),
       targets |-> Dequeued(W, d)] :
      d \in {x \in Queues : deps[q][x] = WaitAll} }

\* The waits runNext starts for entry of queue q: dependency.all() returns the
\* semaphore, which is awaited whatever its state; dependency.current() returns
\* at once when the current gate is open and awaits the semaphore otherwise.
dependencyWaits(W, deps, q) ==
    { [on |-> d,
       gate |-> IF deps[q][d] = WaitAll THEN "all" ELSE "current",
       attached |-> FALSE,
       ahead |-> RunLoops(W),
       targets |-> Dequeued(W, d)] :
      d \in {x \in Queues : /\ deps[q][x] # None
                            /\ (deps[q][x] = WaitAll \/ ~isSignalled(W, x, "current"))} }

\* runNext() up to its first await.
runNext(W, deps, q) ==
    IF W.operations[q] = <<>>
    THEN suspend(signal(W, q, "all"), q)
    ELSE LET entry == Head(W.operations[q])
             W1 == [W EXCEPT !.operations[q] = Tail(@)]
             W2 == reset(reset(W1, q, "current"), q, "all")
         IN  [W2 EXCEPT !.entries[entry].state = "waiting",
                        !.entries[entry].waits = dependencyWaits(W2, deps, q)]

\* Variant of resume without its guard: it starts a run loop whenever called.
resumeAlways(W, deps, q) ==
    runNext([W EXCEPT !.suspended[q] = FALSE], deps, q)

resume(W, deps, q) ==
    IF ~W.suspended[q] THEN W
    ELSE runNext([W EXCEPT !.suspended[q] = FALSE], deps, q)

----------------------------------------------------------------------------
\* Operations

push(W, deps, q) ==
    LET id == Len(W.entries) + 1
        W1 == [W EXCEPT !.entries = Append(@, NewEntry(q)),
                        !.operations[q] = Append(@, id)]
    IN  resume(W1, deps, q)

enqueue(W, deps, q) == push(W, deps, q)

\* The entries es with those of the pending list of q marked as dropped, from
\* entry k downwards (midRun: an operation of q is in flight).
RECURSIVE drop(_, _, _, _, _)
drop(es, q, dropped, midRun, k) ==
    IF k = 0 THEN es
    ELSE IF k \in dropped
    THEN drop([es EXCEPT ![k].state = "cleared"], q, dropped, midRun, k - 1)
    ELSE IF es[k].queue = q /\ es[k].state = "waiting"
    THEN drop([es EXCEPT ![k].cut = @ \/ midRun], q, dropped, midRun, k - 1)
    ELSE drop(es, q, dropped, midRun, k - 1)

clear(W, q) ==
    LET dropped == {W.operations[q][k] : k \in 1..Len(W.operations[q])}
        W1 == [W EXCEPT !.operations[q] = <<>>,
                        !.entries = drop(@, q, dropped, InFlight(W, q) # {},
                                         Len(W.entries))]
    IN  suspend(W1, q)

----------------------------------------------------------------------------
\* Running: the continuations of runNext for the entry i it dequeued.

\* Variant of attach that resolves the wait whatever the state of the gate.
attachResolves(W, i, w) ==
    [W EXCEPT !.entries[i].waits = @ \ {w}]

\* then() of an awaited semaphore is called: the wait resolves when the gate is
\* open, and is attached to the gate's promise otherwise.
attach(W, i, w) ==
    IF isSignalled(W, w.on, w.gate)
    THEN [W EXCEPT !.entries[i].waits = @ \ {w}]
    ELSE [W EXCEPT !.entries[i].waits =
                     (@ \ {w}) \cup {[w EXCEPT !.attached = TRUE, !.ahead = {}]}]

\* A continuation of the run loop of entry i can run now: it is not queued
\* behind the then() of a wait that is not attached yet.
queuedAhead(W, i) ==
    /\ \A j \in Ids(W) : \A w \in W.entries[j].waits : w.attached \/ i \in w.ahead
    /\ \A w \in W.callers : w.attached \/ i \in w.ahead

\* The entries es once a continuation of the run loop of entry i has run: its
\* next one is queued behind every then() not yet called (from entry k downwards).
RECURSIVE behind(_, _, _)
behind(es, i, k) ==
    IF k = 0 THEN es
    ELSE behind([es EXCEPT ![k].waits =
                     {IF w.attached THEN w ELSE [w EXCEPT !.ahead = @ \ {i}] : w \in @}],
                i, k - 1)

continuation(W, i) ==
    LET W1 == IF \A j \in Ids(W) : \A w \in W.entries[j].waits : w.attached
              THEN W
              ELSE [W EXCEPT !.entries = behind(@, i, Len(@))]
    IN  IF \A w \in W.callers : w.attached
        THEN W1
        ELSE [W1 EXCEPT !.callers =
                 {IF w.attached THEN w ELSE [w EXCEPT !.ahead = @ \ {i}] : w \in @}]

\* run(entry): operation() is called once every dependency wait has resolved.
\* An operation that raises makes run(), and with it runNext(), reject.
run(W, i, call) ==
    IF call = "throw"
    THEN [W EXCEPT !.entries[i].state = "crashed", !.entries[i].calls = @ + 1]
    ELSE [W EXCEPT !.entries[i].state = "running", !.entries[i].calls = @ + 1]

\* Variant of settle that passes on the value of the operation enqueued last.
settleWithLast(W, i, outcome) ==
    [W EXCEPT !.entries[i].state = "settled", !.entries[i].outcome = outcome,
              !.entries[i].result = Len(W.entries)]

\* The operation's promise settles: then(resolve, reject) calls one of the two
\* callbacks of the entry, with the value or the error of its operation.
settle(W, i, outcome) ==
    [W EXCEPT !.entries[i].state = "settled", !.entries[i].outcome = outcome,
              !.entries[i].result = i]

\* runNext after "await this.run(entry)": signals current and runs the next.
afterRun(W, deps, i) ==
    LET q == W.entries[i].queue
        W1 == [W EXCEPT !.entries[i].state = "done"]
    IN  runNext(signal(W1, q, "current"), deps, q)

----------------------------------------------------------------------------
\* Awaiting the gates from outside: code that awaits current() or all().

\* Bound: the number of such awaits outstanding at a time.
MaxCallers == 1

\* The entries ever enqueued on a queue.
Enqueued(W, q) == {i \in Ids(W) : W.entries[i].queue = q}

\* The wait of a caller that awaits the semaphore of a gate: like a dependency
\* wait, then() is called in a later microtask.  Bookkeeping, read by no method:
\* targets (the entries the caller means to wait for) and open (the gate was
\* open at the call).
callerWait(W, q, gate, targets) ==
    [on |-> q, gate |-> gate, attached |-> FALSE, ahead |-> RunLoops(W),
     targets |-> targets, open |-> isSignalled(W, q, gate)]

\* current(): returns at once when the current gate is open, and awaits the
\* semaphore otherwise.
current(W, q) ==
    IF isSignalled(W, q, "current") THEN W
    ELSE [W EXCEPT !.callers = @ \cup {callerWait(W, q, "current", Dequeued(W, q))}]

\* all(): returns the semaphore, which the caller awaits whatever its state.
all(W, q) ==
    [W EXCEPT !.callers = @ \cup {callerWait(W, q, "all", Enqueued(W, q))}]

\* then() of the semaphore a caller awaits is called.
attachCaller(W, w) ==
    IF isSignalled(W, w.on, w.gate)
    THEN [W EXCEPT !.callers = @ \ {w}]
    ELSE [W EXCEPT !.callers =
                     (@ \ {w}) \cup {[w EXCEPT !.attached = TRUE, !.ahead = {}]}]

----------------------------------------------------------------------------
\* Actions

Idle ==
    /\ operations = [q \in Queues |-> <<>>]
    /\ suspended = [q \in Queues |-> TRUE]
    /\ currentSemaphore = [q \in Queues |-> TRUE]
    /\ allSemaphore = [q \in Queues |-> TRUE]
    /\ entries = <<>>
    /\ callers = {}

Init ==
    /\ dependencies \in OneWaySetups
    /\ Idle

InitEnqueue ==
    /\ dependencies \in OneWaySetups \cup MutualSetups
    /\ Idle

Enqueue(q) ==
    /\ Len(entries) < MaxOps
    /\ Commit(enqueue(World, dependencies, q))
    /\ UNCHANGED dependencies

Clear(q) ==
    /\ Commit(clear(World, q))
    /\ UNCHANGED dependencies

Suspend(q) ==
    /\ ~suspended[q]
    /\ Commit(suspend(World, q))
    /\ UNCHANGED dependencies

Resume(q) ==
    /\ suspended[q]
    /\ Commit(resume(World, dependencies, q))
    /\ UNCHANGED dependencies

Attach(i) ==
    /\ entries[i].state = "waiting"
    /\ \E w \in entries[i].waits :
         /\ ~w.attached
         /\ Commit(attach(World, i, w))
    /\ UNCHANGED dependencies

Start(i) ==
    /\ entries[i].state = "waiting"
    /\ entries[i].waits = {}
    /\ queuedAhead(World, i)
    /\ \E call \in Calls : Commit(run(continuation(World, i), i, call))
    /\ UNCHANGED dependencies

Finish(i) ==
    /\ entries[i].state = "running"
    /\ queuedAhead(World, i)
    /\ \E outcome \in Outcomes : Commit(settle(continuation(World, i), i, outcome))
    /\ UNCHANGED dependencies

Continue(i) ==
    /\ entries[i].state = "settled"
    /\ queuedAhead(World, i)
    /\ Commit(afterRun(continuation(World, i), dependencies, i))
    /\ UNCHANGED dependencies

RunLoop == \E i \in 1..Len(entries) : Attach(i) \/ Start(i) \/ Finish(i) \/ Continue(i)

EnqueueCall == \E q \in Queues : Enqueue(q)

ControlCall == \E q \in Queues : Clear(q) \/ Suspend(q) \/ Resume(q)

Next == EnqueueCall \/ ControlCall \/ RunLoop

Spec == Init /\ [][Next]_vars

\* The runs of a queue with a WaitAll dependency, under every public call.
InitWaitAll ==
    /\ dependencies = addDependency(NoDependencies, 1, 2, WaitAll)
    /\ Idle

SpecWaitAll == InitWaitAll /\ [][Next]_vars

\* The runs of queues without dependencies, under every public call.
InitPlain ==
    /\ dependencies = NoDependencies
    /\ Idle

SpecPlain == InitPlain /\ [][Next]_vars

\* The runs with code that awaits current() or all() of a queue, under every
\* public call.
Current(q) ==
    /\ Cardinality(callers) < MaxCallers
    /\ ~currentSemaphore[q]
    /\ Commit(current(World, q))
    /\ UNCHANGED dependencies

All(q) ==
    /\ Cardinality(callers) < MaxCallers
    /\ Commit(all(World, q))
    /\ UNCHANGED dependencies

AttachCaller ==
    /\ \E w \in callers :
         /\ ~w.attached
         /\ Commit(attachCaller(World, w))
    /\ UNCHANGED dependencies

GateCall == \E q \in Queues : Current(q) \/ All(q)

NextCallers == Next \/ GateCall \/ AttachCaller

SpecCallers == InitPlain /\ [][NextCallers]_vars

\* The set-up phase: any sequence of addDependency calls on queues that have not
\* been used yet.
AddDependency(self, queue, mode) ==
    /\ dependencies' = addDependency(dependencies, self, queue, mode)
    /\ UNCHANGED <<operations, suspended, currentSemaphore, allSemaphore, entries,
                   callers>>

NextDependencies ==
    \E self \in Queues, queue \in Queues, mode \in DependencyMode :
        AddDependency(self, queue, mode)

InitDependencies ==
    /\ dependencies = NoDependencies
    /\ Idle

SpecDependencies == InitDependencies /\ [][NextDependencies]_vars

\* The runs whose only public calls are enqueue calls.
NextEnqueue == EnqueueCall \/ RunLoop

SpecEnqueue == InitEnqueue /\ [][NextEnqueue]_vars

\* The runs in which every operation completes (it returns; its promise
\* resolves or rejects), with enqueue calls only.  The event loop runs every
\* microtask that is queued and every operation settles in the end, so a step
\* of the run loops that stays possible is taken.
StartReturning(i) ==
    /\ entries[i].state = "waiting"
    /\ entries[i].waits = {}
    /\ queuedAhead(World, i)
    /\ Commit(run(continuation(World, i), i, "return"))
    /\ UNCHANGED dependencies

RunLoopCompleting ==
    \E i \in 1..Len(entries) : Attach(i) \/ StartReturning(i) \/ Finish(i) \/ Continue(i)

NextCompleting == EnqueueCall \/ RunLoopCompleting

FairSpec == InitEnqueue /\ [][NextCompleting]_vars /\ WF_vars(RunLoopCompleting)

\* The runs in which queue 1 was registered as its own dependency, under every
\* public call.
InitSelf ==
    /\ dependencies \in {addDependency(NoDependencies, 1, 1, mode) : mode \in DependencyMode}
    /\ Idle

SpecSelf == InitSelf /\ [][Next]_vars

\* The runs of two queues that depend on each other with WaitAll, with enqueue
\* calls only.
InitMutualWaitAll ==
    /\ dependencies = addDependency(addDependency(NoDependencies, 1, 2, WaitAll),
                                    2, 1, WaitAll)
    /\ Idle

SpecMutualWaitAll == InitMutualWaitAll /\ [][NextEnqueue]_vars

----------------------------------------------------------------------------
\* Properties

QueueOf(i) == entries[i].queue

\* The operation of entry i was called.
Started(i) == entries[i].state \in {"running", "settled", "done", "crashed"}

\* The two queues depend on each other with WaitCurrent or Interleave.
MutualCurrent ==
    /\ dependencies[1][2] \in {WaitCurrent, Interleave}
    /\ dependencies[2][1] \in {WaitCurrent, Interleave}

\* C1: at most one operation of a queue is in flight, whatever public calls
\* are made while an operation is in flight.
C1_OneInFlight ==
    \A q \in Queues : Cardinality(InFlight(World, q)) <= 1

\* C2: with enqueue calls only, an operation enqueued later on a queue is not
\* dequeued, called or settled before every operation enqueued earlier on that
\* queue has finished, settled its awaitable and handed the run loop on.
C2_Fifo ==
    \A i, j \in 1..Len(entries) :
        (i < j /\ QueueOf(i) = QueueOf(j)
         /\ (Started(j) \/ entries[j].state = "waiting" \/ entries[j].outcome # "none"))
        => (entries[i].state = "done" /\ entries[i].outcome # "none")

C2_Witness ==
    \E i, j \in 1..Len(entries) :
        /\ i < j /\ QueueOf(i) = QueueOf(j)
        /\ entries[j].state = "running"
        /\ entries[i].state = "done"

\* C3: after an operation has failed (it raised when called, or its promise
\* rejected and the loop went on), the run loop of its queue is alive: pending
\* entries of a queue that is marked running have a run loop that will take them.
Failed(i) ==
    \/ entries[i].state = "crashed"
    \/ entries[i].state = "done" /\ entries[i].outcome = "rejected"

LoopAlive(q) ==
    \E j \in 1..Len(entries) :
        QueueOf(j) = q /\ entries[j].state \in {"waiting", "running", "settled"}

C3_LoopSurvivesFailure ==
    \A i \in 1..Len(entries) :
        (Failed(i) /\ operations[QueueOf(i)] # <<>> /\ ~suspended[QueueOf(i)])
        => LoopAlive(QueueOf(i))

\* C4: the awaitable of an operation that failed is rejected.  A crashed entry
\* never changes again, so an awaitable it leaves unsettled stays unsettled.
C4_FailureRejects ==
    \A i \in 1..Len(entries) :
        (entries[i].state \in {"crashed", "done"} /\ entries[i].outcome # "resolved")
        => entries[i].outcome = "rejected"

\* C5: with enqueue calls only, when the two queues depend on each other with
\* WaitCurrent or Interleave, no operation of one is in flight while an
\* operation of the other is in flight.
C5_NoOverlap ==
    MutualCurrent => (InFlight(World, 1) = {} \/ InFlight(World, 2) = {})

C5_Witness ==
    /\ MutualCurrent
    /\ InFlight(World, 1) # {}
    /\ \E j \in 1..Len(entries) :
         /\ QueueOf(j) = 2 /\ entries[j].state = "waiting"
         /\ \E w \in entries[j].waits : w.on = 1 /\ w.attached

\* Entry i is dequeued and attached to the current gate of queue d.
WaitsOnCurrent(i, d) ==
    /\ entries[i].state = "waiting"
    /\ \E w \in entries[i].waits : w.on = d /\ w.gate = "current" /\ w.attached

\* C6: with enqueue calls only, when the two queues depend on each other with
\* WaitCurrent or Interleave, no state is reached where each queue holds a
\* dequeued entry that waits for the other queue's current gate.  Only the run
\* loop holding such an entry could signal the gate, so the state is final.
C6_NoDeadlock ==
    MutualCurrent =>
        ~ \E i, j \in 1..Len(entries) :
            /\ QueueOf(i) = 1 /\ WaitsOnCurrent(i, 2)
            /\ QueueOf(j) = 2 /\ WaitsOnCurrent(j, 1)

\* No pending entry, and no entry dequeued or in flight.
QueueIdle(q) ==
    /\ operations[q] = <<>>
    /\ ~ \E j \in 1..Len(entries) :
           QueueOf(j) = q /\ entries[j].state \in {"waiting", "running", "settled"}

\* C7: in the step that calls an operation of a queue with a WaitAll dependency,
\* the dependency has no pending entry and none dequeued or in flight.
C7_IdleAtStart ==
    [][\A i \in 1..Len(entries) :
         (entries[i].state = "waiting" /\ entries'[i].state # "waiting")
         => \A d \in Queues :
              dependencies[QueueOf(i)][d] = WaitAll => QueueIdle(d)]_vars

\* C8: an entry waits for the current gate of a dependency only as long as an
\* entry that the dependency had dequeued at the moment of the dequeue is
\* unfinished.
C8_WaitsForCurrentOnly ==
    \A i \in 1..Len(entries) :
        \A w \in entries[i].waits :
            (w.gate = "current" /\ w.attached) => \E t \in w.targets : entries[t].state # "done"

\* C9: an entry whose operation had not started when clear() was called during
\* an operation of its queue is never executed nor settled.
C9_ClearedNeverRuns ==
    \A i \in 1..Len(entries) :
        entries[i].cut => (~Started(i) /\ entries[i].outcome = "none")

\* C10: while a queue stays suspended (neither resume() nor enqueue is called),
\* no pending entry of it is taken by the run loop.
C10_SuspendedStartsNothing ==
    [][\A i \in 1..Len(entries) :
         (entries[i].state = "pending" /\ entries'[i].state = "waiting")
         => ~(suspended[QueueOf(i)] /\ suspended'[QueueOf(i)])]_vars

\* The operation of entry i was called and is over.
Finished(i) == entries[i].state \in {"settled", "done", "crashed"}

\* The awaitable of the caller wait w resolves in this step.
Resolves(w) ==
    ~ \E v \in callers' :
        v.on = w.on /\ v.gate = w.gate /\ v.targets = w.targets /\ v.open = w.open

\* C11: the awaitable of all() resolves only when the operation of every entry
\* enqueued on the queue before the call is over, whatever public calls are made
\* while it is pending.
C11_AllAfterEveryOperation ==
    [][\A w \in callers :
         (w.gate = "all" /\ Resolves(w)) => \A t \in w.targets : Finished(t)']_vars

\* C12: once the operation of every entry that was dequeued when current() was
\* called has finished and its run loop has gone on, the awaitable of that call
\* has resolved: the caller does not wait for an entry dequeued later.
C12_CurrentWaitsForCurrentOnly ==
    \A w \in callers :
        (w.gate = "current" /\ w.attached)
        => \E t \in w.targets : entries[t].state # "done"

\* Entry i is dequeued and waits for the all gate of queue d, which is closed.
WaitsOnAll(i, d) ==
    /\ entries[i].state = "waiting"
    /\ \E w \in entries[i].waits : w.on = d /\ w.gate = "all"
    /\ ~allSemaphore[d]

\* Entry i of queue 1 and entry j of queue 2 wait for each other's all gate.
Deadlocked(i, j) ==
    /\ QueueOf(i) = 1 /\ WaitsOnAll(i, 2)
    /\ QueueOf(j) = 2 /\ WaitsOnAll(j, 1)

\* C13: with mutual WaitAll and enqueue calls only, once each queue holds a
\* dequeued entry that waits for the other queue's closed all gate, no step
\* ends that state: neither operation is called and neither gate opens.
C13_MutualWaitAllDeadlock ==
    [][\A i, j \in 1..Len(entries) : Deadlocked(i, j) => Deadlocked(i, j)']_vars

C13_Witness ==
    \E i, j \in 1..Len(entries) :
        /\ Deadlocked(i, j)
        /\ \A w \in entries[i].waits \cup entries[j].waits : w.attached
        /\ Len(entries) = MaxOps

\* C14: queue a holds queue b with the mode Interleave exactly when b holds a
\* with the mode Interleave, after any sequence of addDependency calls.
C14_InterleaveMutual ==
    \A a, b \in Queues :
        (dependencies[a][b] = Interleave) <=> (dependencies[b][a] = Interleave)

\* C15: the operation of an entry is called at most once; the awaitable of the
\* entry settles only once its own operation has finished, with the value of
\* that operation, and once settled it never changes.
C15_OnceWithOwnResult ==
    /\ [](\A i \in 1..Len(entries) :
            /\ entries[i].calls <= 1
            /\ entries[i].outcome = "none" => entries[i].result = 0
            /\ entries[i].outcome # "none"
               => (entries[i].state \in {"settled", "done"} /\ entries[i].result = i))
    /\ [][\A i \in 1..Len(entries) :
            entries[i].outcome # "none"
            => (entries'[i].outcome = entries[i].outcome
                /\ entries'[i].result = entries[i].result)]_vars

C15_Witness ==
    \E i, j \in 1..Len(entries) :
        /\ i # j /\ QueueOf(i) = QueueOf(j)
        /\ entries[i].outcome = "resolved" /\ entries[i].result = i
        /\ entries[j].outcome = "rejected" /\ entries[j].result = j
        /\ entries[i].calls = 1 /\ entries[j].calls = 1

\* C16: the all gate of a queue is open exactly when the queue has no pending
\* entry and no entry dequeued or in flight.
C16_AllGateOpenIffIdle ==
    \A q \in Queues : allSemaphore[q] <=> QueueIdle(q)

\* C17: a queue that holds a dequeued, unfinished entry has its all gate
\* closed, and the step that dequeues an entry leaves both gates closed.
C17_DequeuedSeesClosedGates ==
    /\ [](\A i \in 1..Len(entries) :
            entries[i].state \in {"waiting", "running", "settled"}
            => ~allSemaphore[QueueOf(i)])
    /\ [][\A i \in 1..Len(entries) :
            (entries[i].state = "pending" /\ entries'[i].state = "waiting")
            => (~currentSemaphore'[QueueOf(i)] /\ ~allSemaphore'[QueueOf(i)])]_vars

\* C18: a caller of current() or all() that found the gate open at the call
\* never waits for a later opening of the gate.
C18_SameTickShortcut ==
    \A w \in callers : w.attached => ~w.open

\* C19: when every operation completes, no dependency cycle has a WaitAll edge,
\* no queue depends on itself and only enqueue is called, every entry is
\* finished with in the end and every queue is idle again for good: pending
\* list empty, not running, both gates open.
C19_EventuallyIdle ==
    <>[](/\ \A i \in 1..Len(entries) : entries[i].state = "done"
         /\ \A q \in Queues : /\ operations[q] = <<>>
                               /\ suspended[q]
                               /\ currentSemaphore[q]
                               /\ allSemaphore[q])

\* C20: no operation of a queue that is its own dependency is ever called, and
\* once such a queue has dequeued an entry both its gates are closed.
C20_SelfDependencyNeverStarts ==
    \A i \in 1..Len(entries) :
        dependencies[QueueOf(i)][QueueOf(i)] # None
        => /\ ~Started(i)
           /\ entries[i].state = "waiting"
              => (~currentSemaphore[QueueOf(i)] /\ ~allSemaphore[QueueOf(i)])

====
